---- MODULE Spec2Model ----
(***************************************************************************)
(* URL-shortening service: the urls table, the Prisma repository, the URL  *)
(* service and the HTTP controller.  Requests are served on the            *)
(* connections of Req; a handler runs between awaits, and every step of    *)
(* the model is one store operation together with the handler code around  *)
(* it: the code from the arrival of the request to the first store         *)
(* operation belongs to that operation's step, and the code after a store  *)
(* operation up to the next one (or up to the response) belongs to the     *)
(* step of the operation it follows.                                       *)
(***************************************************************************)
EXTENDS Integers, Sequences, FiniteSets, TLC

(***************************************************************************)
(* Bounds of the model.                                                    *)
(***************************************************************************)
NumReq == 2
MaxRequests == 3
NumCallers == 2
MaxCalls == 5

(***************************************************************************)
(* Program constants.                                                      *)
(***************************************************************************)
MaxAttempts == 5
CodeLength == 8

Req == 1..NumReq
Callers == 1..NumCallers

\* JavaScript's undefined for an optional string, and its truthiness test.
Undefined == "<undefined>"

\* A test that only rejects a missing value.
Truthy_Defined(s) == s # Undefined

Truthy(s) == s # "" /\ s # Undefined

\* process.env.BASE_URL ?? 'http://localhost:3000'
baseUrl == "http://localhost:3000"

\* Request bodies and path parameters the clients send.
LongUrls ==
  {"https://example.com", "https://example.org/a", "not-a-url", "", Undefined}
CustomCodes == {Undefined, "", "abc"}
AllCodes == {"aaaaaaaa", "bbbbbbbb", "abc", "zz", "health"}
PathCodes == {"aaaaaaaa", "bbbbbbbb", "abc", "", Undefined}
RepositoryUrls == {"https://example.com", "https://example.org/a"}
HealthCodes == {"health", "abc"}
Segments == {"health", "abc", ""}

\* nanoid(size): some string of the requested length.
nanoid(size) == {c \in AllCodes : Len(c) = size}

\* A validation that accepts every string.
isURL_Any(u) == TRUE

\* validator.isURL on the request bodies above.
isURL(u) == u \in {"https://example.com", "https://example.org/a"}

\* A cap compared with > in place of >=.
AttemptsExhausted_OffByOne(attempt) == attempt > MaxAttempts

\* generateUniqueCode gives up when its attempt counter reaches the cap.
AttemptsExhausted(attempt) == attempt >= MaxAttempts

\* The tests of a lookup's result: `if (existing)` of generateShortCode and
\* of generateUniqueCode, `if (!url)` of getLongUrl and of the controller.
CustomCodeExists_Skipped(existing) == FALSE
CustomCodeExists(existing) == existing # <<>>
CandidateCollides_Never(existing) == FALSE
CandidateCollides(existing) == existing # <<>>
NotFound_Never(url) == FALSE
NotFound(url) == url = <<>>

\* Error messages.
ErrLongUrlRequired == "longUrl is required"
ErrShortCodeRequired == "shortCode is required"
ErrInvalidUrl == "Invalid URL provided"
ErrCustomExists == "Custom code already exists"
ErrGenerate == "Failed to generate unique short code"
ErrNotFound == "Short URL not found"
ErrInternal == "Internal server error"
ErrUnique == "Unique constraint failed on the fields: (short_code)"
ErrDatabase == "Database error"
ErrRecordNotFound == "Record to update not found."
ErrRouteNotFound == "Route not found"

\* rows: the urls table; pc, req, loc: per connection, the position of the
\* handler running on it, the request as the service receives it and the
\* handler's locals; last: the request answered most recently, with its
\* locals, its response and the repository calls of the step that answered
\* (threw: whether the store failed in one of them);
\* started, redirected, issued: the number of requests received, the
\* redirects answered per code and the (shortCode, longUrl) pairs answered
\* with 201.
VARIABLES rows, pc, req, loc, last, started, redirected, issued

\* instances: the Map of the database-client registry; clients: the number
\* of PrismaClient objects constructed so far (a client is its number);
\* closed: the clients whose $disconnect has resolved; pending: per caller
\* of disconnectPrisma, the client whose $disconnect it awaits (0: none);
\* returned: the client the last getPrismaClient call returned; completed:
\* whether a disconnectPrisma call has completed since; calls and op: the
\* number of calls made and the operation of the last step.
VARIABLES instances, clients, closed, pending, returned, completed, calls, op

\* entry: the entry point the process was started from; exit: <<>> while the
\* process runs, <<code>> once it has exited; handler: per delivery of a
\* signal, the position of the shutdown it started.
VARIABLES entry, exit, handler

urlVars == <<rows, pc, req, loc, last, started, redirected, issued>>
prismaVars ==
  <<instances, clients, closed, pending, returned, completed, calls, op>>
procVars == <<entry, exit, handler>>
vars == <<urlVars, prismaVars, procVars>>

(***************************************************************************)
(* The urls table and the repository.                                      *)
(***************************************************************************)
\* A row whose counter starts one below zero.
NewRow_NegativeClicks(id, longUrl, shortCode, t) ==
  [id |-> id, shortCode |-> shortCode, longUrl |-> longUrl,
   clicks |-> -1, createdAt |-> t, updatedAt |-> t]

\* The row prisma.url.create inserts: clicks DEFAULT 0, created_at and
\* updated_at set to the current time, id generated by the store.
NewRow(id, longUrl, shortCode, t) ==
  [id |-> id, shortCode |-> shortCode, longUrl |-> longUrl,
   clicks |-> 0, createdAt |-> t, updatedAt |-> t]

\* A table without the unique index.
UniqueViolation_NoIndex(table, shortCode) == FALSE

\* The unique index urls_short_code_key rejects an insert of a present code.
UniqueViolation(table, shortCode) ==
  \E i \in DOMAIN table : table[i].shortCode = shortCode

\* An upsert in place of the insert: a present code is overwritten.
create_Upsert(table, longUrl, shortCode, t) ==
  IF \E i \in DOMAIN table : table[i].shortCode = shortCode
    THEN [error |-> "",
          table |-> [i \in DOMAIN table |->
                       IF table[i].shortCode = shortCode
                         THEN [table[i] EXCEPT !.longUrl = longUrl,
                                               !.updatedAt = t]
                         ELSE table[i]]]
    ELSE [error |-> "",
          table |-> Append(table, NewRow(Len(table) + 1, longUrl,
                                         shortCode, t))]

\* An insert that normalises the URL with a trailing slash.
create_Normalised(table, longUrl, shortCode, t) ==
  IF \E i \in DOMAIN table : table[i].shortCode = shortCode
    THEN [error |-> ErrUnique, table |-> table]
    ELSE [error |-> "",
          table |-> Append(table, NewRow(Len(table) + 1, longUrl \o "/",
                                         shortCode, t))]

\* An insert that overwrites the URL of the row in its way before it
\* reports the violation.
create_Overwriting(table, longUrl, shortCode, t) ==
  IF \E i \in DOMAIN table : table[i].shortCode = shortCode
    THEN [error |-> ErrUnique,
          table |-> [i \in DOMAIN table |->
                       IF table[i].shortCode = shortCode
                         THEN [table[i] EXCEPT !.longUrl = longUrl]
                         ELSE table[i]]]
    ELSE [error |-> "",
          table |-> Append(table, NewRow(Len(table) + 1, longUrl,
                                         shortCode, t))]

\* repository.create: the insert either violates the unique index, which
\* prisma reports as an error and which leaves the table as it was, or
\* appends the new row.
create(table, longUrl, shortCode, t) ==
  IF UniqueViolation(table, shortCode)
    THEN [error |-> ErrUnique, table |-> table]
    ELSE [error |-> "",
          table |-> Append(table, NewRow(Len(table) + 1, longUrl,
                                         shortCode, t))]

\* A lookup without its where clause: the first row of the table.
findByShortCode_First(table, shortCode) ==
  IF table = <<>> THEN <<>> ELSE <<Head(table)>>

\* repository.findByShortCode: <<>> for null, <<row>> for the row found.
findByShortCode(table, shortCode) ==
  LET hits == SelectSeq(table, LAMBDA u : u.shortCode = shortCode)
  IN  IF hits = <<>> THEN <<>> ELSE <<Head(hits)>>

\* An update without its where clause: every row is incremented.
incrementClicks_AllRows(table, shortCode, t) ==
  [i \in DOMAIN table |->
     [table[i] EXCEPT !.clicks = @ + 1, !.updatedAt = t]]

\* An update that counts every click twice.
incrementClicks_ByTwo(table, shortCode, t) ==
  [i \in DOMAIN table |->
     IF table[i].shortCode = shortCode
       THEN [table[i] EXCEPT !.clicks = @ + 2, !.updatedAt = t]
       ELSE table[i]]

\* An update that writes the row anew, its creation time included.
incrementClicks_Recreating(table, shortCode, t) ==
  [i \in DOMAIN table |->
     IF table[i].shortCode = shortCode
       THEN [table[i] EXCEPT !.clicks = @ + 1, !.updatedAt = t,
                             !.createdAt = t]
       ELSE table[i]]

\* repository.incrementClicks: one UPDATE ... SET clicks = clicks + 1.
incrementClicks(table, shortCode, t) ==
  [i \in DOMAIN table |->
     IF table[i].shortCode = shortCode
       THEN [table[i] EXCEPT !.clicks = @ + 1, !.updatedAt = t]
       ELSE table[i]]

\* An update that matches no row and reports nothing.
RecordMissing_Never(table, shortCode) == FALSE

\* prisma.url.update throws when no row matches the where clause.
RecordMissing(table, shortCode) ==
  ~ \E i \in DOMAIN table : table[i].shortCode = shortCode

\* repository.findAll: the rows ordered by createdAt descending; rows with
\* equal createdAt come in an order the database chooses.
IsOrderedDesc(s) ==
  \A i, j \in DOMAIN s : i < j => s[i].createdAt >= s[j].createdAt

\* A listing ordered by the time of the last update.
findAll_ByUpdatedAt(table) ==
  {s \in [DOMAIN table -> {table[i] : i \in DOMAIN table}] :
     /\ \E p \in [DOMAIN table -> DOMAIN table] :
          /\ \A i, j \in DOMAIN table : i # j => p[i] # p[j]
          /\ \A i \in DOMAIN table : s[i] = table[p[i]]
     /\ \A i, j \in DOMAIN s : i < j => s[i].updatedAt >= s[j].updatedAt}

findAll(table) ==
  {s \in [DOMAIN table -> {table[i] : i \in DOMAIN table}] :
     /\ \E p \in [DOMAIN table -> DOMAIN table] :
          /\ \A i, j \in DOMAIN table : i # j => p[i] # p[j]
          /\ \A i \in DOMAIN table : s[i] = table[p[i]]
     /\ IsOrderedDesc(s)}

(***************************************************************************)
(* Requests, handler locals and responses.                                 *)
(***************************************************************************)
\* A request: its kind, the fields of its body and its path parameter.  The
\* locals of a handler: the attempt of generateUniqueCode, the lookups the
\* handler has made for its code, the code and the row read.
NoReq == [kind |-> "none", longUrl |-> "", customCode |-> Undefined,
          shortCode |-> ""]
NoLoc == [attempt |-> 0, lookups |-> 0, shortCode |-> "", url |-> <<>>]
NoCalls == [find |-> 0, create |-> 0, inc |-> 0, all |-> 0, threw |-> 0]
NoResp == [status |-> 0, error |-> "", location |-> "", shortUrl |-> "",
           longUrl |-> "", shortCode |-> "", urls |-> <<>>, health |-> ""]

\* An error response that hides every failure behind a generic 500.
ErrorResp_Generic(s, message) ==
  [NoResp EXCEPT !.status = 500, !.error = ErrInternal]

\* res.status(s).json({error: message})
ErrorResp(s, message) == [NoResp EXCEPT !.status = s, !.error = message]

(***************************************************************************)
(* The database-client registry.                                           *)
(***************************************************************************)
SINGLETON_KEY == "prisma_singleton"

\* Map.get (<<>> for undefined), Map.set and Map.delete.
MapGet(m, k) == IF k \in DOMAIN m THEN <<m[k]>> ELSE <<>>
MapSet(m, k, v) == [x \in DOMAIN m \cup {k} |-> IF x = k THEN v ELSE m[x]]
MapDelete(m, k) == [x \in DOMAIN m \ {k} |-> m[x]]

\* The registry once the module is loaded: `export const prisma =
\* getPrismaClient()` has constructed the first client and registered it.
InitPrisma ==
  /\ instances = MapSet(<<>>, SINGLETON_KEY, 1)
  /\ clients = 1
  /\ closed = {}
  /\ pending = [c \in Callers |-> 0]
  /\ returned = 1
  /\ completed = FALSE
  /\ calls = 0
  /\ op = "load"

\* A getPrismaClient that constructs a client at every call.
getPrismaClient_AlwaysNew ==
  /\ calls < MaxCalls
  /\ clients' = clients + 1
  /\ instances' = MapSet(instances, SINGLETON_KEY, clients + 1)
  /\ returned' = clients + 1
  /\ completed' = FALSE
  /\ calls' = calls + 1
  /\ op' = "getPrismaClient"
  /\ UNCHANGED <<closed, pending, urlVars, procVars>>

\* getPrismaClient: the registered client, or a new one, registered.
getPrismaClient ==
  /\ calls < MaxCalls
  /\ LET existing == MapGet(instances, SINGLETON_KEY)
     IN  IF existing # <<>>
           THEN /\ returned' = existing[1]
                /\ UNCHANGED <<instances, clients>>
           ELSE /\ clients' = clients + 1
                /\ instances' = MapSet(instances, SINGLETON_KEY, clients + 1)
                /\ returned' = clients + 1
  /\ completed' = FALSE
  /\ calls' = calls + 1
  /\ op' = "getPrismaClient"
  /\ UNCHANGED <<closed, pending, urlVars, procVars>>

\* disconnectPrisma up to its await: with a registered client, the call of
\* client.$disconnect(); with none, the call completes at once.
disconnectPrisma(c) ==
  /\ calls < MaxCalls
  /\ pending[c] = 0
  /\ LET client == MapGet(instances, SINGLETON_KEY)
     IN  IF client # <<>>
           THEN /\ pending' = [pending EXCEPT ![c] = client[1]]
                /\ UNCHANGED completed
           ELSE /\ completed' = TRUE
                /\ UNCHANGED pending
  /\ calls' = calls + 1
  /\ op' = "disconnectPrisma"
  /\ UNCHANGED <<instances, clients, closed, returned, urlVars, procVars>>

\* A disconnectPrisma that leaves the disconnected client registered.
Disconnected_KeepsKey(c) ==
  /\ pending[c] # 0
  /\ closed' = closed \cup {pending[c]}
  /\ pending' = [pending EXCEPT ![c] = 0]
  /\ completed' = TRUE
  /\ op' = "$disconnect"
  /\ UNCHANGED <<instances, clients, returned, calls, urlVars, procVars>>

\* client.$disconnect() resolves and disconnectPrisma deletes the key.
Disconnected(c) ==
  /\ pending[c] # 0
  /\ closed' = closed \cup {pending[c]}
  /\ instances' = MapDelete(instances, SINGLETON_KEY)
  /\ pending' = [pending EXCEPT ![c] = 0]
  /\ completed' = TRUE
  /\ op' = "$disconnect"
  /\ UNCHANGED <<clients, returned, calls, urlVars, procVars>>

(***************************************************************************)
(* Graceful shutdown: the handler of SIGTERM and SIGINT.                   *)
(***************************************************************************)
\* A shutdown that exits without awaiting the disconnect it started.
shutdown_NoAwait(c) ==
  /\ exit = <<>>
  /\ handler[c] = "idle"
  /\ pending' = [pending EXCEPT ![c] = returned]
  /\ handler' = [handler EXCEPT ![c] = "exited"]
  /\ exit' = <<0>>
  /\ UNCHANGED <<instances, clients, closed, returned, completed, calls, op,
                 entry, urlVars>>

\* shutdown(signal) up to its await.  src/index.ts calls $disconnect of
\* container.prisma, the client getPrismaClient returned at bootstrap;
\* the other entry point calls disconnectPrisma, which calls $disconnect of
\* the registered client or, with none, resolves at once, and then
\* shutdown goes on to process.exit(0) before any other event is handled.
shutdown(c) ==
  /\ exit = <<>>
  /\ handler[c] = "idle"
  /\ LET client == IF entry = "src/index.ts" THEN <<returned>>
                   ELSE MapGet(instances, SINGLETON_KEY)
     IN  IF client # <<>>
           THEN /\ pending' = [pending EXCEPT ![c] = client[1]]
                /\ handler' = [handler EXCEPT ![c] = "$disconnect"]
                /\ UNCHANGED exit
           ELSE /\ handler' = [handler EXCEPT ![c] = "exited"]
                /\ exit' = <<0>>
                /\ UNCHANGED pending
  /\ UNCHANGED <<instances, clients, closed, returned, completed, calls, op,
                 entry, urlVars>>

\* The $disconnect a shutdown awaits resolves: disconnectPrisma, where it
\* was called, deletes the key, and shutdown calls process.exit(0).
ShutdownDisconnected(c) ==
  /\ exit = <<>>
  /\ handler[c] = "$disconnect"
  /\ closed' = closed \cup {pending[c]}
  /\ instances' = IF entry = "src/index.ts" THEN instances
                  ELSE MapDelete(instances, SINGLETON_KEY)
  /\ pending' = [pending EXCEPT ![c] = 0]
  /\ handler' = [handler EXCEPT ![c] = "exited"]
  /\ exit' = <<0>>
  /\ UNCHANGED <<clients, returned, completed, calls, op, entry, urlVars>>

\* The $disconnect a shutdown awaits rejects: shutdown ends without
\* process.exit(0), and the rejection, which nothing handles, either ends
\* the process with code 1 or is only reported, as the runtime is set up.
ShutdownRejected(c) ==
  /\ exit = <<>>
  /\ handler[c] = "$disconnect"
  /\ pending' = [pending EXCEPT ![c] = 0]
  /\ handler' = [handler EXCEPT ![c] = "rejected"]
  /\ \E code \in {<<>>, <<1>>} : exit' = code
  /\ UNCHANGED <<instances, clients, closed, returned, completed, calls, op,
                 entry, urlVars>>

NextPrisma ==
  \/ getPrismaClient
  \/ \E c \in Callers : disconnectPrisma(c)
  \/ \E c \in Callers : Disconnected(c)

\* The process after bootstrap(): running, no signal delivered.
Entries == {"src/index.ts", "unnamed/part_003"}
InitProcess ==
  /\ exit = <<>>
  /\ handler = [c \in Callers |-> "idle"]

Init ==
  /\ rows = <<>>
  /\ started = 0
  /\ redirected = [c \in AllCodes |-> 0]
  /\ issued = {}
  /\ pc = [r \in Req |-> "idle"]
  /\ req = [r \in Req |-> NoReq]
  /\ loc = [r \in Req |-> NoLoc]
  /\ last = [req |-> NoReq, loc |-> NoLoc, resp |-> NoResp,
             calls |-> NoCalls]
  /\ InitPrisma
  /\ InitProcess
  /\ entry = "src/index.ts"

\* The state after a restart of the service: the urls table is kept by the
\* database, here with the one row an earlier run created.
InitRestart ==
  /\ rows = <<NewRow(1, "https://example.com", "abc", 1)>>
  /\ started = 0
  /\ redirected = [c \in AllCodes |-> 0]
  /\ issued = {}
  /\ pc = [r \in Req |-> "idle"]
  /\ req = [r \in Req |-> NoReq]
  /\ loc = [r \in Req |-> NoLoc]
  /\ last = [req |-> NoReq, loc |-> NoLoc, resp |-> NoResp,
             calls |-> NoCalls]
  /\ InitPrisma
  /\ InitProcess
  /\ entry = "src/index.ts"

\* A request arrives on the first free connection.
CanArrive(r) ==
  /\ started < MaxRequests
  /\ pc[r] = "idle"
  /\ \A q \in Req : q < r => pc[q] # "idle"

Arrive(r) ==
  /\ CanArrive(r)
  /\ started' = started + 1

\* The time a write of the store runs at: the database clock has advanced
\* since the last write.
LastTime(table) ==
  IF table = <<>> THEN 0
  ELSE CHOOSE t \in {table[i].updatedAt : i \in DOMAIN table} :
         \A i \in DOMAIN table : table[i].updatedAt <= t
Clock(table) == LastTime(table) + 1

\* The handler of request q on connection r sends its response and ends,
\* with locals l; c is the repository calls of this step.
Respond(r, q, l, response, c) ==
  /\ pc' = [pc EXCEPT ![r] = "idle"]
  /\ req' = [req EXCEPT ![r] = NoReq]
  /\ loc' = [loc EXCEPT ![r] = NoLoc]
  /\ last' = [req |-> q, loc |-> l, resp |-> response, calls |-> c]

\* The handler of request q on connection r awaits the store call of
\* position p, with locals l.
Await(r, q, p, l) ==
  /\ pc' = [pc EXCEPT ![r] = p]
  /\ req' = [req EXCEPT ![r] = q]
  /\ loc' = [loc EXCEPT ![r] = l]
  /\ UNCHANGED last

(***************************************************************************)
(* POST /api/urls                                                          *)
(***************************************************************************)
\* The request the controller hands to the service: the custom code is
\* passed on only when it is truthy.
CreateUrlRequest(longUrl, customCode) ==
  [kind |-> "create", longUrl |-> longUrl,
   customCode |-> IF Truthy(customCode) THEN customCode ELSE Undefined,
   shortCode |-> ""]

\* A 201 body whose shortUrl joins base URL and code without the slash.
CreateUrlResponse_NoSlash(shortCode, url) ==
  [NoResp EXCEPT !.status = 201,
                 !.shortUrl = baseUrl \o shortCode,
                 !.longUrl = url.longUrl,
                 !.shortCode = url.shortCode]

\* The body of the 201 response: shortUrl from the service's own code,
\* longUrl and shortCode from the row the repository returned.
CreateUrlResponse(shortCode, url) ==
  [NoResp EXCEPT !.status = 201,
                 !.shortUrl = baseUrl \o "/" \o shortCode,
                 !.longUrl = url.longUrl,
                 !.shortCode = url.shortCode]

\* generateUniqueCode(attempt) from the draw of a candidate to the next
\* draw: one lookup, of the candidate; on a collision the recursive call
\* with attempt + 1, which throws at the cap; else the candidate is
\* returned as the code to insert.
generateUniqueCode(r, q, attempt) ==
  \E shortCode \in nanoid(CodeLength) :
    LET existing == findByShortCode(rows, shortCode)
        looked == loc[r].lookups + 1
    IN  IF CandidateCollides(existing)
          THEN IF AttemptsExhausted(attempt + 1)
                 THEN Respond(r, q, [NoLoc EXCEPT !.attempt = attempt + 1,
                                                  !.lookups = looked],
                              ErrorResp(400, ErrGenerate),
                              [NoCalls EXCEPT !.find = 1])
                 ELSE Await(r, q, "generate",
                            [NoLoc EXCEPT !.attempt = attempt + 1,
                                          !.lookups = looked])
          ELSE Await(r, q, "create", [NoLoc EXCEPT !.shortCode = shortCode,
                                                   !.lookups = looked])

\* generateShortCode: with a custom code, its lookup and the duplicate
\* error; without one, generateUniqueCode().
generateShortCode(r, q) ==
  IF Truthy(q.customCode)
    THEN LET existing == findByShortCode(rows, q.customCode)
         IN  IF CustomCodeExists(existing)
               THEN Respond(r, q, [NoLoc EXCEPT !.lookups = 1],
                            ErrorResp(400, ErrCustomExists),
                            [NoCalls EXCEPT !.find = 1])
               ELSE Await(r, q, "create",
                          [NoLoc EXCEPT !.shortCode = q.customCode,
                                        !.lookups = 1])
    ELSE IF AttemptsExhausted(0)
      THEN Respond(r, q, NoLoc, ErrorResp(400, ErrGenerate), NoCalls)
      ELSE generateUniqueCode(r, q, 0)

\* The controller's createShortUrl and the service's createShortUrl up to
\* the await that follows the first lookup: body validation,
\* validator.isURL, then generateShortCode.
PostUrls(r, longUrl, customCode) ==
  LET q == CreateUrlRequest(longUrl, customCode)
  IN  /\ Arrive(r)
      /\ IF ~ Truthy(longUrl)
           THEN Respond(r, q, NoLoc, ErrorResp(400, ErrLongUrlRequired),
                        NoCalls)
           ELSE IF ~ isURL(longUrl)
             THEN Respond(r, q, NoLoc, ErrorResp(400, ErrInvalidUrl), NoCalls)
             ELSE generateShortCode(r, q)
      /\ UNCHANGED <<rows, redirected, issued, prismaVars, procVars>>

\* generateUniqueCode after a collision: the next candidate.
Generate(r) ==
  /\ pc[r] = "generate"
  /\ generateUniqueCode(r, req[r], loc[r].attempt)
  /\ UNCHANGED <<rows, started, redirected, issued, prismaVars, procVars>>

\* A createShortUrl that answers a rejected insert by generating another
\* candidate.
Create_Retrying(r) ==
  /\ pc[r] = "create"
  /\ LET result == create(rows, req[r].longUrl, loc[r].shortCode, Clock(rows))
         response == CreateUrlResponse(loc[r].shortCode,
                                       result.table[Len(result.table)])
         called == [NoCalls EXCEPT !.create = 1]
     IN  /\ rows' = result.table
         /\ IF result.error # ""
              THEN /\ Await(r, req[r], "generate",
                            [NoLoc EXCEPT !.attempt = 1,
                                          !.lookups = loc[r].lookups])
                   /\ UNCHANGED issued
              ELSE /\ Respond(r, req[r], loc[r], response, called)
                   /\ issued' = issued \cup
                        {[shortCode |-> response.shortCode,
                          longUrl |-> req[r].longUrl]}
  /\ UNCHANGED <<started, redirected, prismaVars, procVars>>

\* urlRepository.create and the 201 response; a unique-index violation is
\* thrown by the store and caught by the controller.
Create(r) ==
  /\ pc[r] = "create"
  /\ LET result == create(rows, req[r].longUrl, loc[r].shortCode, Clock(rows))
         response == CreateUrlResponse(loc[r].shortCode,
                                       result.table[Len(result.table)])
         called == [NoCalls EXCEPT !.create = 1]
     IN  /\ rows' = result.table
         /\ IF result.error # ""
              THEN /\ Respond(r, req[r], loc[r],
                              ErrorResp(400, result.error), called)
                   /\ UNCHANGED issued
              ELSE /\ Respond(r, req[r], loc[r], response, called)
                   /\ issued' = issued \cup
                        {[shortCode |-> response.shortCode,
                          longUrl |-> req[r].longUrl]}
  /\ UNCHANGED <<started, redirected, prismaVars, procVars>>

(***************************************************************************)
(* GET /:shortCode                                                         *)
(***************************************************************************)
\* redirectToLongUrl and getLongUrl up to the await of incrementClicks: the
\* check of the path parameter and the lookup; null ends the request with
\* 404.
GetRedirect(r, shortCode) ==
  LET q == [NoReq EXCEPT !.kind = "redirect", !.shortCode = shortCode]
      url == findByShortCode(rows, shortCode)
  IN  /\ Arrive(r)
      /\ IF ~ Truthy(shortCode)
           THEN Respond(r, q, NoLoc, ErrorResp(400, ErrShortCodeRequired),
                        NoCalls)
           ELSE IF NotFound(url)
             THEN Respond(r, q, NoLoc, ErrorResp(404, ErrNotFound),
                          [NoCalls EXCEPT !.find = 1])
             ELSE Await(r, q, "increment", [NoLoc EXCEPT !.url = url])
      /\ UNCHANGED <<rows, redirected, issued, prismaVars, procVars>>

\* The increment as a write of the count read by the lookup plus one, in
\* place of the store's atomic increment.
Increment_ReadModifyWrite(r) ==
  /\ pc[r] = "increment"
  /\ rows' = [i \in DOMAIN rows |->
                IF rows[i].shortCode = req[r].shortCode
                  THEN [rows[i] EXCEPT !.clicks = loc[r].url[1].clicks + 1,
                                       !.updatedAt = Clock(rows)]
                  ELSE rows[i]]
  /\ Respond(r, req[r], loc[r], [NoResp EXCEPT !.status = 302,
                                       !.location = loc[r].url[1].longUrl],
             [NoCalls EXCEPT !.inc = 1])
  /\ redirected' = [redirected EXCEPT ![req[r].shortCode] = @ + 1]
  /\ UNCHANGED <<started, issued, prismaVars, procVars>>

\* getLongUrl: incrementClicks, then the redirect to the longUrl read by
\* the lookup; an error of the store is answered 500.
Increment(r) ==
  /\ pc[r] = "increment"
  /\ LET called == [NoCalls EXCEPT !.inc = 1]
     IN  IF RecordMissing(rows, req[r].shortCode)
           THEN /\ Respond(r, req[r], loc[r], ErrorResp(500, ErrInternal),
                           called)
                /\ UNCHANGED <<rows, redirected>>
           ELSE /\ rows' = incrementClicks(rows, req[r].shortCode, Clock(rows))
                /\ Respond(r, req[r], loc[r],
                           [NoResp EXCEPT !.status = 302,
                                          !.location = loc[r].url[1].longUrl],
                           called)
                /\ redirected' =
                     [redirected EXCEPT ![req[r].shortCode] = @ + 1]
  /\ UNCHANGED <<started, issued, prismaVars, procVars>>

(***************************************************************************)
(* GET /api/urls/:shortCode/stats and GET /api/urls                        *)
(***************************************************************************)
\* A stats handler that counts its own request as a click.
GetStats_CountsClick(r, shortCode) ==
  LET q == [NoReq EXCEPT !.kind = "stats", !.shortCode = shortCode]
      url == findByShortCode(rows, shortCode)
      found == [NoCalls EXCEPT !.find = 1]
  IN  /\ Arrive(r)
      /\ rows' = incrementClicks(rows, shortCode, Clock(rows))
      /\ IF ~ Truthy(shortCode)
           THEN Respond(r, q, NoLoc, ErrorResp(400, ErrShortCodeRequired),
                        NoCalls)
           ELSE IF NotFound(url)
             THEN Respond(r, q, NoLoc, ErrorResp(404, ErrNotFound), found)
             ELSE Respond(r, q, NoLoc,
                          [NoResp EXCEPT !.status = 200, !.urls = url],
                          found)
      /\ UNCHANGED <<redirected, issued, prismaVars, procVars>>

\* The controller's getUrlStats with the service's lookup.
GetStats(r, shortCode) ==
  LET q == [NoReq EXCEPT !.kind = "stats", !.shortCode = shortCode]
      url == findByShortCode(rows, shortCode)
      found == [NoCalls EXCEPT !.find = 1]
  IN  /\ Arrive(r)
      /\ IF ~ Truthy(shortCode)
           THEN Respond(r, q, NoLoc, ErrorResp(400, ErrShortCodeRequired),
                        NoCalls)
           ELSE IF NotFound(url)
             THEN Respond(r, q, NoLoc, ErrorResp(404, ErrNotFound), found)
             ELSE Respond(r, q, NoLoc,
                          [NoResp EXCEPT !.status = 200, !.urls = url],
                          found)
      /\ UNCHANGED <<rows, redirected, issued, prismaVars, procVars>>

\* The controller's getAllUrls with the repository's findAll.
GetUrls(r) ==
  /\ Arrive(r)
  /\ \E urls \in findAll(rows) :
       Respond(r, [NoReq EXCEPT !.kind = "list"], NoLoc,
               [NoResp EXCEPT !.status = 200, !.urls = urls],
               [NoCalls EXCEPT !.all = 1])
  /\ UNCHANGED <<rows, redirected, issued, prismaVars, procVars>>

(***************************************************************************)
(* GET /health and the order in which the app registers its routes.        *)
(***************************************************************************)
\* An app that mounts the router before the health route.
Routes_RouterFirst == <<"/:shortCode", "/health">>

\* The routes a GET of a one-segment path can match, in the order of their
\* registration: app.get('/health') before the router's '/:shortCode'.
Routes == <<"/health", "/:shortCode">>

Matches(route, segment) ==
  IF route = "/health" THEN segment = "health" ELSE segment # ""

\* The first route registered that matches, "*" when none does.
RECURSIVE Route(_, _)
Route(routes, segment) ==
  IF routes = <<>> THEN "*"
  ELSE IF Matches(Head(routes), segment) THEN Head(routes)
  ELSE Route(Tail(routes), segment)

\* The health handler: 200 {status: 'OK', timestamp}, without any call of
\* the service; the timestamp, the wall clock of the answer, is left out.
Health(r) ==
  /\ Arrive(r)
  /\ Respond(r, [NoReq EXCEPT !.kind = "health"], NoLoc,
             [NoResp EXCEPT !.status = 200, !.health = "OK"], NoCalls)
  /\ UNCHANGED <<rows, redirected, issued, prismaVars, procVars>>

\* The 404 handler behind the routes.
RouteNotFound(r) ==
  /\ Arrive(r)
  /\ Respond(r, [NoReq EXCEPT !.kind = "*"], NoLoc,
             ErrorResp(404, ErrRouteNotFound), NoCalls)
  /\ UNCHANGED <<rows, redirected, issued, prismaVars, procVars>>

\* GET /<segment>, dispatched to the first route that matches.
Get(r, segment) ==
  LET route == Route(Routes, segment)
  IN  IF route = "/health" THEN Health(r)
      ELSE IF route = "/:shortCode" THEN GetRedirect(r, segment)
      ELSE RouteNotFound(r)

(***************************************************************************)
(* Failures of the store: a repository call rejects, the service passes    *)
(* the rejection on and the controller's catch answers.                    *)
(***************************************************************************)
\* The catch of createShortUrl: 400 with the message of the Error caught.
CatchCreateShortUrl(message) == ErrorResp(400, message)

\* The catch of redirectToLongUrl, getUrlStats and getAllUrls.
CatchInternal == ErrorResp(500, ErrInternal)

\* POST /api/urls whose first lookup rejects.
PostUrlsThrows(r, longUrl, customCode) ==
  LET q == CreateUrlRequest(longUrl, customCode)
  IN  /\ Arrive(r)
      /\ Truthy(longUrl)
      /\ isURL(longUrl)
      /\ Respond(r, q, NoLoc, CatchCreateShortUrl(ErrDatabase),
                 [NoCalls EXCEPT !.find = 1, !.threw = 1])
      /\ UNCHANGED <<rows, redirected, issued, prismaVars, procVars>>

\* generateUniqueCode whose lookup of the next candidate rejects.
GenerateThrows(r) ==
  /\ pc[r] = "generate"
  /\ Respond(r, req[r], loc[r], CatchCreateShortUrl(ErrDatabase),
             [NoCalls EXCEPT !.find = 1, !.threw = 1])
  /\ UNCHANGED <<rows, started, redirected, issued, prismaVars, procVars>>

\* urlRepository.create rejects for a reason other than the unique index.
CreateThrows(r) ==
  /\ pc[r] = "create"
  /\ Respond(r, req[r], loc[r], CatchCreateShortUrl(ErrDatabase),
             [NoCalls EXCEPT !.create = 1, !.threw = 1])
  /\ UNCHANGED <<rows, started, redirected, issued, prismaVars, procVars>>

\* GET /:shortCode whose lookup rejects.
GetRedirectThrows(r, shortCode) ==
  LET q == [NoReq EXCEPT !.kind = "redirect", !.shortCode = shortCode]
  IN  /\ Arrive(r)
      /\ Truthy(shortCode)
      /\ Respond(r, q, NoLoc, CatchInternal,
                 [NoCalls EXCEPT !.find = 1, !.threw = 1])
      /\ UNCHANGED <<rows, redirected, issued, prismaVars, procVars>>

\* A getLongUrl that does not wait for the increment: the redirect is sent
\* although incrementClicks rejects.
IncrementThrows_Redirecting(r) ==
  /\ pc[r] = "increment"
  /\ Respond(r, req[r], loc[r],
             [NoResp EXCEPT !.status = 302,
                            !.location = loc[r].url[1].longUrl],
             [NoCalls EXCEPT !.inc = 1, !.threw = 1])
  /\ redirected' = [redirected EXCEPT ![req[r].shortCode] = @ + 1]
  /\ UNCHANGED <<rows, started, issued, prismaVars, procVars>>

\* A handler whose rejection nothing catches: no response is sent.
IncrementThrows_Unhandled(r) ==
  /\ pc[r] = "increment"
  /\ pc' = [pc EXCEPT ![r] = "unhandled"]
  /\ UNCHANGED <<rows, req, loc, last, started, redirected, issued,
                 prismaVars, procVars>>

\* incrementClicks rejects: no redirect, the catch answers.
IncrementThrows(r) ==
  /\ pc[r] = "increment"
  /\ Respond(r, req[r], loc[r], CatchInternal,
             [NoCalls EXCEPT !.inc = 1, !.threw = 1])
  /\ UNCHANGED <<rows, started, redirected, issued, prismaVars, procVars>>

\* GET /api/urls/:shortCode/stats whose lookup rejects.
GetStatsThrows(r, shortCode) ==
  LET q == [NoReq EXCEPT !.kind = "stats", !.shortCode = shortCode]
  IN  /\ Arrive(r)
      /\ Truthy(shortCode)
      /\ Respond(r, q, NoLoc, CatchInternal,
                 [NoCalls EXCEPT !.find = 1, !.threw = 1])
      /\ UNCHANGED <<rows, redirected, issued, prismaVars, procVars>>

\* GET /api/urls whose findAll rejects.
GetUrlsThrows(r) ==
  /\ Arrive(r)
  /\ Respond(r, [NoReq EXCEPT !.kind = "list"], NoLoc, CatchInternal,
             [NoCalls EXCEPT !.all = 1, !.threw = 1])
  /\ UNCHANGED <<rows, redirected, issued, prismaVars, procVars>>

Next ==
  \/ \E r \in Req, longUrl \in LongUrls, customCode \in CustomCodes :
       PostUrls(r, longUrl, customCode)
  \/ \E r \in Req : Generate(r)
  \/ \E r \in Req : Create(r)
  \/ \E r \in Req, shortCode \in PathCodes : GetRedirect(r, shortCode)
  \/ \E r \in Req : Increment(r)
  \/ \E r \in Req, shortCode \in PathCodes : GetStats(r, shortCode)
  \/ \E r \in Req : GetUrls(r)

Spec == Init /\ [][Next]_vars

\* The service on a store that may fail at any call.
NextFault ==
  \/ Next
  \/ \E r \in Req, longUrl \in LongUrls, customCode \in CustomCodes :
       PostUrlsThrows(r, longUrl, customCode)
  \/ \E r \in Req : GenerateThrows(r)
  \/ \E r \in Req : CreateThrows(r)
  \/ \E r \in Req, shortCode \in PathCodes : GetRedirectThrows(r, shortCode)
  \/ \E r \in Req : IncrementThrows(r)
  \/ \E r \in Req, shortCode \in PathCodes : GetStatsThrows(r, shortCode)
  \/ \E r \in Req : GetUrlsThrows(r)

SpecFault == Init /\ [][NextFault]_vars

\* The callers of the database-client registry.
SpecPrisma == Init /\ [][NextPrisma]_vars

\* The service running on the table an earlier run left.
SpecRestart == InitRestart /\ [][Next]_vars

\* The app with its health route: creates with the custom codes "health"
\* and "abc", and GETs of one-segment paths.
NextHealth ==
  \/ \E r \in Req, longUrl \in RepositoryUrls, customCode \in HealthCodes :
       PostUrls(r, longUrl, customCode)
  \/ \E r \in Req : Create(r)
  \/ \E r \in Req, segment \in Segments : Get(r, segment)
  \/ \E r \in Req : Increment(r)

SpecHealth == Init /\ [][NextHealth]_vars

\* The process started from either entry point, serving GETs until a
\* shutdown has ended it.
InitShutdown ==
  /\ rows = <<>>
  /\ started = 0
  /\ redirected = [c \in AllCodes |-> 0]
  /\ issued = {}
  /\ pc = [r \in Req |-> "idle"]
  /\ req = [r \in Req |-> NoReq]
  /\ loc = [r \in Req |-> NoLoc]
  /\ last = [req |-> NoReq, loc |-> NoLoc, resp |-> NoResp,
             calls |-> NoCalls]
  /\ InitPrisma
  /\ InitProcess
  /\ entry \in Entries

\* The server answers GETs for as long as the process runs.
Serve(r, segment) ==
  /\ exit = <<>>
  /\ Get(r, segment)

NextShutdown ==
  \/ \E r \in Req, segment \in Segments : Serve(r, segment)
  \/ \E c \in Callers : shutdown(c)
  \/ \E c \in Callers : ShutdownDisconnected(c)
  \/ \E c \in Callers : ShutdownRejected(c)

SpecShutdown == InitShutdown /\ [][NextShutdown]_vars

\* The service when every POST /api/urls carries customCode: ''.
NextEmptyCode ==
  \/ \E r \in Req, longUrl \in LongUrls : PostUrls(r, longUrl, "")
  \/ \E r \in Req : Generate(r)
  \/ \E r \in Req : Create(r)

SpecEmptyCode == Init /\ [][NextEmptyCode]_vars

(***************************************************************************)
(* The repository called directly, as its own tests call it: any operation *)
(* with any code, the result of the call kept in `last`.                   *)
(***************************************************************************)
\* The call and its result: an error the call rejected with, or the rows it
\* resolved with.
Returned(kind, longUrl, shortCode, error, urls, c) ==
  [req |-> [NoReq EXCEPT !.kind = kind, !.longUrl = longUrl,
                         !.shortCode = shortCode],
   loc |-> NoLoc,
   resp |-> [NoResp EXCEPT !.error = error, !.urls = urls],
   calls |-> IF error = "" THEN c ELSE [c EXCEPT !.threw = 1]]

\* repository.create(longUrl, shortCode)
RepositoryCreate(longUrl, shortCode) ==
  /\ started < MaxRequests
  /\ started' = started + 1
  /\ LET result == create(rows, longUrl, shortCode, Clock(rows))
     IN  /\ rows' = result.table
         /\ last' = Returned("create", longUrl, shortCode, result.error,
                             IF result.error = ""
                               THEN <<result.table[Len(result.table)]>>
                               ELSE <<>>,
                             [NoCalls EXCEPT !.create = 1])
  /\ UNCHANGED <<pc, req, loc, redirected, issued, prismaVars, procVars>>

\* repository.findByShortCode(shortCode)
RepositoryFindByShortCode(shortCode) ==
  /\ started < MaxRequests
  /\ started' = started + 1
  /\ last' = Returned("findByShortCode", "", shortCode, "",
                      findByShortCode(rows, shortCode),
                      [NoCalls EXCEPT !.find = 1])
  /\ UNCHANGED <<rows, pc, req, loc, redirected, issued, prismaVars, procVars>>

\* repository.incrementClicks(shortCode): prisma.url.update rejects when
\* no row has the code, and else updates the row.
RepositoryIncrementClicks(shortCode) ==
  /\ started < MaxRequests
  /\ started' = started + 1
  /\ IF RecordMissing(rows, shortCode)
       THEN /\ last' = Returned("incrementClicks", "", shortCode,
                                ErrRecordNotFound, <<>>,
                                [NoCalls EXCEPT !.inc = 1])
            /\ UNCHANGED rows
       ELSE /\ rows' = incrementClicks(rows, shortCode, Clock(rows))
            /\ last' = Returned("incrementClicks", "", shortCode, "", <<>>,
                                [NoCalls EXCEPT !.inc = 1])
  /\ UNCHANGED <<pc, req, loc, redirected, issued, prismaVars, procVars>>

NextRepository ==
  \/ \E longUrl \in RepositoryUrls, shortCode \in AllCodes :
       RepositoryCreate(longUrl, shortCode)
  \/ \E shortCode \in AllCodes : RepositoryFindByShortCode(shortCode)
  \/ \E shortCode \in AllCodes : RepositoryIncrementClicks(shortCode)

SpecRepository == Init /\ [][NextRepository]_vars

(***************************************************************************)
(* Properties.                                                             *)
(***************************************************************************)
\* The positions of the rows of a table that hold a code, and whether the
\* urls table holds it.
RowsOf(table, code) == {i \in DOMAIN table : table[i].shortCode = code}
Present(code) == RowsOf(rows, code) # {}

\* The kinds of create request, and the URLs of the model that are valid.
IsCustomCreate(q) == q.kind = "create" /\ Truthy(q.customCode)
IsGeneratedCreate(q) == q.kind = "create" /\ q.customCode = Undefined
ValidUrls == {"https://example.com", "https://example.org/a"}

\* The steps of connection r: the step that receives a request on it, with
\* the request received, and a step that continues the handler running on
\* it.
Arrives(r) == CanArrive(r) /\ started' = started + 1
Answers(r) == (Arrives(r) \/ pc[r] # "idle") /\ pc'[r] = "idle"
NewReq(r) == IF pc'[r] = "idle" THEN last'.req ELSE req'[r]
Continues(r) == pc[r] # "idle" /\ (pc'[r] # pc[r] \/ loc'[r] # loc[r])

\* C1: in every reachable state, whatever requests ran and however their
\* steps interleaved, no two rows of the urls table have the same shortCode.
C1_ShortCodeUnique ==
  \A i, j \in DOMAIN rows : i # j => rows[i].shortCode # rows[j].shortCode

\* Two creates without a custom code drew the same candidate, both found it
\* free, and the second insert was rejected by the unique index.
C1_Witness ==
  /\ Len(rows) = 2
  /\ IsGeneratedCreate(last.req)
  /\ last.resp.error = ErrUnique

\* C2: the insert of a create request that passed the existence check of
\* its custom code succeeds exactly when no row holds the code yet; when a
\* concurrent request with the same code inserted first, the insert is
\* rejected, the request is answered 400 with the store's error, the table
\* is unchanged, and every other request still waiting to insert the code
\* keeps waiting; after either outcome exactly one row holds the code.
C2_CustomCodeRace ==
  [][\A r \in Req :
       (pc[r] = "create" /\ Continues(r) /\ IsCustomCreate(req[r])) =>
         LET code == req[r].customCode
         IN  /\ loc[r].shortCode = code
             /\ Cardinality(RowsOf(rows', code)) = 1
             /\ \A o \in Req \ {r} :
                  pc[o] = "create" /\ loc[o].shortCode = code =>
                    pc'[o] = "create" /\ loc'[o].shortCode = code
             /\ IF Present(code)
                  THEN /\ last'.resp = ErrorResp(400, ErrUnique)
                       /\ rows' = rows
                       /\ issued' = issued
                  ELSE /\ last'.resp.status = 201
                       /\ Len(rows') = Len(rows) + 1]_vars

\* A request with a custom code found the code free, lost the insert to a
\* concurrent request with the same code and was answered with the store's
\* error; one row holds the code.
C2_Witness ==
  /\ IsCustomCreate(last.req)
  /\ last.loc.shortCode = last.req.customCode
  /\ last.resp = ErrorResp(400, ErrUnique)
  /\ last.calls.create = 1
  /\ Cardinality(RowsOf(rows, last.req.customCode)) = 1
  /\ \E p \in issued : p.shortCode = last.req.customCode

\* C3: a create request with a valid longUrl and a custom code whose code
\* is held by a row is answered 400 'Custom code already exists' without a
\* call of repository.create and with the table unchanged; one whose code
\* is free goes on to the insert of exactly that code, and the insert of a
\* code that is still free appends exactly one row, with the custom code
\* as its shortCode and the submitted longUrl, and answers 201 with them.
C3_CustomCode ==
  [][\A r \in Req :
       /\ (/\ Arrives(r)
           /\ IsCustomCreate(NewReq(r))
           /\ NewReq(r).longUrl \in ValidUrls) =>
            /\ rows' = rows
            /\ IF Present(NewReq(r).customCode)
                 THEN /\ pc'[r] = "idle"
                      /\ last'.resp = ErrorResp(400, ErrCustomExists)
                      /\ last'.calls.create = 0
                 ELSE /\ pc'[r] = "create"
                      /\ loc'[r].shortCode = NewReq(r).customCode
       /\ (/\ pc[r] = "create"
           /\ Continues(r)
           /\ IsCustomCreate(req[r])
           /\ ~ Present(req[r].customCode)) =>
            /\ Len(rows') = Len(rows) + 1
            /\ SubSeq(rows', 1, Len(rows)) = rows
            /\ rows'[Len(rows')].shortCode = req[r].customCode
            /\ rows'[Len(rows')].longUrl = req[r].longUrl
            /\ last'.resp.status = 201
            /\ last'.resp.shortCode = req[r].customCode
            /\ last'.resp.longUrl = req[r].longUrl
            /\ last'.calls.create = 1]_vars

\* A custom code was created, and a later request for the same code was
\* answered with the duplicate error.
C3_Witness ==
  /\ IsCustomCreate(last.req)
  /\ last.req.customCode = "abc"
  /\ last.resp = ErrorResp(400, ErrCustomExists)
  /\ Cardinality(RowsOf(rows, "abc")) = 1
  /\ \E p \in issued : p.shortCode = "abc"

\* C4: the increment step of a resolve of a code that a row holds raises
\* that row's clicks by exactly 1, leaves every other row as it was, calls
\* incrementClicks once and redirects to the row's stored longUrl.
C4_ResolveIncrementsByOne ==
  [][\A r \in Req :
       (/\ pc[r] = "increment"
        /\ Continues(r)
        /\ Present(req[r].shortCode)) =>
         /\ Len(rows') = Len(rows)
         /\ \A i \in DOMAIN rows :
              IF rows[i].shortCode = req[r].shortCode
                THEN /\ rows'[i].clicks = rows[i].clicks + 1
                     /\ rows'[i].longUrl = rows[i].longUrl
                     /\ rows'[i].shortCode = rows[i].shortCode
                     /\ last'.resp.location = rows[i].longUrl
                ELSE rows'[i] = rows[i]
         /\ last'.resp.status = 302
         /\ last'.calls.inc = 1]_vars

\* A resolve was answered with the redirect; its row counts one click and
\* another row counts none.
C4_Witness ==
  /\ last.req.kind = "redirect"
  /\ last.resp.status = 302
  /\ \E i, j \in DOMAIN rows :
       /\ i # j
       /\ rows[i].shortCode = last.req.shortCode
       /\ rows[i].clicks = 1
       /\ rows[j].clicks = 0

\* C5: a resolve of a code that no row holds is answered 'Short URL not
\* found' (the service's null) in the step of its lookup: incrementClicks
\* is not called and every row is left as it was.
C5_ResolveAbsent ==
  [][\A r \in Req :
       (/\ Arrives(r)
        /\ NewReq(r).kind = "redirect"
        /\ Truthy(NewReq(r).shortCode)
        /\ ~ Present(NewReq(r).shortCode)) =>
         /\ pc'[r] = "idle"
         /\ last'.resp = ErrorResp(404, ErrNotFound)
         /\ last'.calls.inc = 0
         /\ rows' = rows
         /\ redirected' = redirected]_vars

\* A resolve of an absent code was answered 404 while the table holds
\* other rows.
C5_Witness ==
  /\ last.req.kind = "redirect"
  /\ last.resp = ErrorResp(404, ErrNotFound)
  /\ rows # <<>>
  /\ ~ Present(last.req.shortCode)

\* C6: resolves of one code that run concurrently, their lookups and
\* increments interleaved in any order, are each answered with the
\* redirect to the row's longUrl, and each adds exactly one click: in every
\* state a row's clicks is the number of resolves of its code answered so
\* far, so none is lost and none counted twice.
C6_ConcurrentResolves ==
  /\ [](\A i \in DOMAIN rows : rows[i].clicks = redirected[rows[i].shortCode])
  /\ [][\A r \in Req :
          (pc[r] = "increment" /\ Continues(r)) =>
            /\ last'.resp.status = 302
            /\ \E i \in DOMAIN rows :
                 /\ rows[i].shortCode = req[r].shortCode
                 /\ last'.resp.location = rows[i].longUrl
            /\ redirected'[req[r].shortCode] =
                 redirected[req[r].shortCode] + 1]_vars

\* Two resolves of one code overlapped: the one answered last had read the
\* row while it counted no click, the other incremented in between, and
\* with both answered the row counts two.
C6_Witness ==
  /\ \A r \in Req : pc[r] = "idle"
  /\ last.req.kind = "redirect"
  /\ last.resp.status = 302
  /\ last.loc.url # <<>>
  /\ last.loc.url[1].clicks = 0
  /\ \E i \in DOMAIN rows :
       /\ rows[i].shortCode = last.req.shortCode
       /\ rows[i].clicks = 2
       /\ redirected[rows[i].shortCode] = 2

\* C7: a row's clicks is a non-negative integer in every state; a step
\* removes no row, lowers the clicks of no row, and a row it adds starts
\* with 0 clicks.
C7_ClicksMonotone ==
  /\ [](\A i \in DOMAIN rows : rows[i].clicks \in Nat)
  /\ [][/\ Len(rows') >= Len(rows)
        /\ \A i \in DOMAIN rows :
             /\ rows'[i].id = rows[i].id
             /\ rows'[i].clicks >= rows[i].clicks
        /\ \A i \in DOMAIN rows' \ DOMAIN rows : rows'[i].clicks = 0]_vars

\* A row was resolved once, and a row created after that counts no click.
C7_Witness ==
  \E i, j \in DOMAIN rows :
    /\ rows[i].clicks = 1
    /\ rows[j].clicks = 0
    /\ rows[j].createdAt > rows[i].updatedAt

\* C8: a create request without a custom code looks up one candidate per
\* step of its generation, the first at its arrival and at most 4 more
\* after collisions, so at most 5 in all and the generation ends after at
\* most 5 steps; each step either finds its candidate free and goes on to
\* insert it, or collides and draws again, or, at the fifth collision, is
\* answered 'Failed to generate unique short code'; no step of the
\* generation changes the table, and the failure is answered without a
\* call of repository.create.
C8_BoundedGeneration ==
  /\ [](\A r \in Req :
          /\ loc[r].attempt \in 0..4
          /\ pc[r] = "generate" =>
               IsGeneratedCreate(req[r]) /\ loc[r].attempt \in 1..4)
  /\ [](last.resp.error = ErrGenerate =>
          /\ IsGeneratedCreate(last.req)
          /\ last.loc.attempt = 5
          /\ last.resp.status = 400
          /\ last.calls.create = 0)
  /\ [][\A r \in Req :
          /\ (/\ Arrives(r)
              /\ IsGeneratedCreate(NewReq(r))
              /\ NewReq(r).longUrl \in ValidUrls) =>
               /\ rows' = rows
               /\ \/ pc'[r] = "create" /\ ~ Present(loc'[r].shortCode)
                  \/ pc'[r] = "generate" /\ loc'[r].attempt = 1
          /\ (pc[r] = "generate" /\ Continues(r)) =>
               /\ rows' = rows
               /\ issued' = issued
               /\ \/ /\ pc'[r] = "create"
                     /\ Len(loc'[r].shortCode) = 8
                     /\ ~ Present(loc'[r].shortCode)
                  \/ /\ pc'[r] = "generate"
                     /\ loc'[r].attempt = loc[r].attempt + 1
                  \/ /\ pc'[r] = "idle"
                     /\ loc[r].attempt = 4
                     /\ last'.resp = ErrorResp(400, ErrGenerate)]_vars

\* Five candidates of one request collided and the request was answered
\* with the generation error.
C8_Witness ==
  /\ IsGeneratedCreate(last.req)
  /\ last.loc.attempt = 5
  /\ last.resp = ErrorResp(400, ErrGenerate)
  /\ rows # <<>>

\* C9: a create request whose longUrl is 'not-a-url', with or without a
\* custom code, is answered 400 'Invalid URL provided' in the step of its
\* arrival: no repository call is made for it, it never waits for the
\* store, and the table is unchanged.
C9_InvalidUrl ==
  /\ [](\A r \in Req : req[r].longUrl # "not-a-url")
  /\ []((last.req.kind = "create" /\ last.req.longUrl = "not-a-url") =>
          /\ last.resp = ErrorResp(400, ErrInvalidUrl)
          /\ last.calls = NoCalls)
  /\ [][\A r \in Req :
          (/\ Arrives(r)
           /\ NewReq(r).kind = "create"
           /\ NewReq(r).longUrl = "not-a-url") =>
            /\ pc'[r] = "idle"
            /\ rows' = rows
            /\ issued' = issued]_vars

\* A malformed URL submitted with a custom code was rejected while the
\* table holds rows, none of them for that code.
C9_Witness ==
  /\ last.req.kind = "create"
  /\ last.req.longUrl = "not-a-url"
  /\ last.req.customCode = "abc"
  /\ last.resp = ErrorResp(400, ErrInvalidUrl)
  /\ rows # <<>>
  /\ ~ Present("abc")

\* The (shortCode, longUrl) pairs answered 201 whose code was generated.
Generated == {p \in issued : Len(p.shortCode) = 8}

\* C10: a 201 answer to a create request without a custom code carries a
\* shortCode of length 8 and the longUrl submitted; from then on a row
\* holds that code with exactly the submitted longUrl, whatever other
\* requests run, and every resolve of the code finds the row and is
\* redirected to exactly the submitted longUrl.
C10_RoundTrip ==
  /\ []((last.resp.status = 201 /\ IsGeneratedCreate(last.req)) =>
          /\ Len(last.resp.shortCode) = 8
          /\ last.resp.longUrl = last.req.longUrl
          /\ [shortCode |-> last.resp.shortCode,
              longUrl |-> last.req.longUrl] \in issued)
  /\ [](\A p \in Generated :
          /\ p.longUrl \in ValidUrls
          /\ \E i \in DOMAIN rows :
               rows[i].shortCode = p.shortCode /\ rows[i].longUrl = p.longUrl)
  /\ [][\A r \in Req :
          /\ (/\ Arrives(r)
              /\ NewReq(r).kind = "redirect"
              /\ \E p \in Generated : p.shortCode = NewReq(r).shortCode) =>
               pc'[r] = "increment"
          /\ (pc[r] = "increment" /\ Continues(r)) =>
               \A p \in Generated :
                 p.shortCode = req[r].shortCode =>
                   /\ last'.resp.status = 302
                   /\ last'.resp.location = p.longUrl]_vars

\* Two URLs were shortened without custom codes, and a resolve of the
\* second code was redirected to the second URL.
C10_Witness ==
  /\ last.req.kind = "redirect"
  /\ Len(last.req.shortCode) = 8
  /\ last.resp.status = 302
  /\ last.resp.location = "https://example.org/a"
  /\ [shortCode |-> last.req.shortCode,
      longUrl |-> "https://example.org/a"] \in issued
  /\ \E p \in issued :
       p.shortCode # last.req.shortCode /\ p.longUrl = "https://example.com"

\* C11: the clicks a stats request reports for a code is the number of
\* redirects answered for that code so far (1 after a create, one redirect
\* and the stats request), and a stats request changes neither the table
\* nor that number.
C11_ClickAccounting ==
  /\ []((last.req.kind = "stats" /\ last.resp.status = 200) =>
          /\ Len(last.resp.urls) = 1
          /\ last.resp.urls[1].shortCode = last.req.shortCode
          /\ last.resp.urls[1].clicks = redirected[last.req.shortCode])
  /\ [][\A r \in Req :
          (Arrives(r) /\ NewReq(r).kind = "stats") =>
            /\ rows' = rows
            /\ redirected' = redirected]_vars

\* A code was created, resolved once, and the stats request that followed
\* reports one click.
C11_Witness ==
  /\ started = 3
  /\ last.req.kind = "stats"
  /\ last.resp.status = 200
  /\ last.resp.urls[1].clicks = 1
  /\ redirected[last.req.shortCode] = 1
  /\ \E p \in issued : p.shortCode = last.req.shortCode

\* C12: a stats request makes one lookup and nothing else: it is answered
\* with the stored row when a row holds the code and with 'Short URL not
\* found' (the service's null) when none does, and in both cases the table
\* is left exactly as it was, no field of a row changed and no row added.
C12_StatsReadOnly ==
  [][\A r \in Req :
       (/\ Arrives(r)
        /\ NewReq(r).kind = "stats"
        /\ Truthy(NewReq(r).shortCode)) =>
         /\ pc'[r] = "idle"
         /\ rows' = rows
         /\ last'.calls =
              [find |-> 1, create |-> 0, inc |-> 0, all |-> 0, threw |-> 0]
         /\ IF Present(NewReq(r).shortCode)
              THEN /\ last'.resp.status = 200
                   /\ \E i \in DOMAIN rows :
                        /\ rows[i].shortCode = NewReq(r).shortCode
                        /\ last'.resp.urls = <<rows[i]>>
              ELSE /\ last'.resp.status = 404
                   /\ last'.resp.error = "Short URL not found"
                   /\ last'.resp.urls = <<>>]_vars

\* A stats request was answered with the second of two stored rows, which
\* still counts no click.
C12_Witness ==
  /\ last.req.kind = "stats"
  /\ last.resp.status = 200
  /\ Len(rows) = 2
  /\ last.resp.urls = <<rows[2]>>
  /\ rows[2].clicks = 0
  /\ rows[2].updatedAt = rows[2].createdAt

\* C13: a listing holds every stored row exactly once, newest first by
\* createdAt, whatever creates and resolves ran before; a click on a row
\* leaves its createdAt, and so its place in the listing, as it was.
C13_ListNewestFirst ==
  /\ []((last.req.kind = "list") =>
          /\ last.resp.status = 200
          /\ Len(last.resp.urls) = Len(rows)
          /\ \A i \in DOMAIN rows :
               Cardinality({j \in DOMAIN last.resp.urls :
                              last.resp.urls[j] = rows[i]}) = 1
          /\ \A j, k \in DOMAIN last.resp.urls :
               j < k =>
                 last.resp.urls[j].createdAt >= last.resp.urls[k].createdAt)
  /\ [][\A r \in Req :
          (pc[r] = "increment" /\ Continues(r)) =>
            /\ Len(rows') = Len(rows)
            /\ \A i \in DOMAIN rows :
                 rows'[i].createdAt = rows[i].createdAt]_vars

\* The older of two rows was clicked after the newer was created, and the
\* listing still has the newer row first.
C13_Witness ==
  /\ last.req.kind = "list"
  /\ Len(rows) = 2
  /\ rows[1].clicks = 1
  /\ rows[1].updatedAt > rows[2].createdAt
  /\ last.resp.urls = <<rows[2], rows[1]>>

\* C14: at the HTTP boundary a create request with the malformed URL is
\* answered 400 'Invalid URL provided', a create request whose custom code
\* a row already holds (as when the same POST is repeated) is answered 400
\* 'Custom code already exists', and a redirect or stats request for a code
\* no row holds is answered 404 with the body {error: 'Short URL not
\* found'}.
C14_ErrorMapping ==
  [][\A r \in Req :
       Arrives(r) =>
         LET q == NewReq(r)
             answered(s, message) ==
               /\ pc'[r] = "idle"
               /\ last'.resp.status = s
               /\ last'.resp.error = message
               /\ last'.resp.location = ""
               /\ last'.resp.shortCode = ""
               /\ last'.resp.urls = <<>>
         IN  /\ (q.kind = "create" /\ q.longUrl = "not-a-url") =>
                  answered(400, "Invalid URL provided")
             /\ (/\ IsCustomCreate(q)
                 /\ q.longUrl \in ValidUrls
                 /\ Present(q.customCode)) =>
                  answered(400, "Custom code already exists")
             /\ (/\ q.kind \in {"redirect", "stats"}
                 /\ Truthy(q.shortCode)
                 /\ ~ Present(q.shortCode)) =>
                  answered(404, "Short URL not found")]_vars

\* The same POST with a custom code was sent twice: the first created the
\* row, the second was answered with the duplicate error.
C14_Witness ==
  /\ started = 2
  /\ Len(rows) = 1
  /\ IsCustomCreate(last.req)
  /\ last.resp.status = 400
  /\ last.resp.error = "Custom code already exists"
  /\ [shortCode |-> last.req.customCode,
      longUrl |-> last.req.longUrl] \in issued

\* C15: on every endpoint a request during which the store failed is
\* answered 500 with the body {error: 'Internal server error'} and nothing
\* else.
C15_StoreFailureGeneric ==
  last.calls.threw = 1 =>
    /\ last.resp.status = 500
    /\ last.resp.error = "Internal server error"

\* C16: every request gets exactly one response, whatever the store does:
\* a handler is only ever at one of its awaits or finished, no response is
\* recorded for a request while its handler still runs, the step that
\* finishes a handler records the response to that handler's request, with
\* a success, redirect, 4xx or 5xx status, and a failure of the store is
\* answered with a 4xx or 5xx JSON error.
C16_OneResponse ==
  /\ [](\A r \in Req :
          /\ pc[r] \in {"idle", "generate", "create", "increment"}
          /\ pc[r] = "idle" <=> req[r] = NoReq)
  /\ [](last.req.kind # "none" =>
          /\ last.resp.status \in {200, 201, 302, 400, 404, 500}
          /\ last.calls.threw = 1 =>
               /\ last.resp.status \in {400, 500}
               /\ last.resp.error # "")
  /\ [][\A r \in Req :
          (Arrives(r) \/ Continues(r)) =>
            IF pc'[r] = "idle"
              THEN /\ last'.req.kind # "none"
                   /\ Continues(r) => last'.req = req[r]
                   /\ last'.resp.status # 0
              ELSE last' = last]_vars

\* The store failed at the increment of a resolve, and the request was
\* answered 500.
C16_Witness ==
  /\ last.req.kind = "redirect"
  /\ last.calls.inc = 1
  /\ last.calls.threw = 1
  /\ last.resp.status = 500
  /\ \A r \in Req : pc[r] = "idle"

\* C17: a create request changes the table in at most one step, its
\* successful insert, which appends one row and leaves the rows already
\* stored as they were; every other step of it, and so every create that
\* ends in an error (invalid URL, duplicate custom code, generation
\* exhausted, conflict at the insert, failure of the store), leaves the
\* table exactly as it was.
C17_NoPartialFailure ==
  [][\A r \in Req :
       (\/ Arrives(r) /\ NewReq(r).kind = "create"
        \/ Continues(r) /\ req[r].kind = "create") =>
         IF pc'[r] = "idle" /\ last'.resp.status = 201
           THEN /\ Len(rows') = Len(rows) + 1
                /\ SubSeq(rows', 1, Len(rows)) = rows
           ELSE rows' = rows]_vars

\* The store failed at the insert of a create request: the request was
\* answered with an error and the row stored before is all the table holds.
C17_Witness ==
  /\ last.req.kind = "create"
  /\ last.calls.create = 1
  /\ last.calls.threw = 1
  /\ last.resp.status = 400
  /\ Len(rows) = 1
  /\ ~ Present(last.loc.shortCode)

\* C18: no step removes a row or changes the id, shortCode, longUrl or
\* createdAt of a row; a row changes only in the increment step of a
\* resolve of its code, and then only its clicks, by one, and its
\* updatedAt, which moves forward; so the set of stored codes only grows.
C18_RecordLifecycle ==
  [][/\ Len(rows') >= Len(rows)
     /\ {rows[i].shortCode : i \in DOMAIN rows} \subseteq
          {rows'[i].shortCode : i \in DOMAIN rows'}
     /\ \A i \in DOMAIN rows :
          /\ rows'[i].id = rows[i].id
          /\ rows'[i].shortCode = rows[i].shortCode
          /\ rows'[i].longUrl = rows[i].longUrl
          /\ rows'[i].createdAt = rows[i].createdAt
          /\ rows'[i] # rows[i] =>
               /\ \E r \in Req :
                    /\ pc[r] = "increment"
                    /\ Continues(r)
                    /\ req[r].shortCode = rows[i].shortCode
               /\ rows'[i].clicks = rows[i].clicks + 1
               /\ rows'[i].updatedAt > rows[i].updatedAt]_vars

\* A row was resolved twice: it counts two clicks, was updated after its
\* creation, and is otherwise the row that was created.
C18_Witness ==
  \E i \in DOMAIN rows :
    /\ rows[i].clicks = 2
    /\ rows[i].updatedAt > rows[i].createdAt
    /\ [shortCode |-> rows[i].shortCode, longUrl |-> rows[i].longUrl]
         \in issued

\* C20: a create request whose longUrl is missing or empty is answered 400
\* {error: 'longUrl is required'}, and a redirect or stats request whose
\* shortCode is missing or empty is answered 400 {error: 'shortCode is
\* required'}; the controller answers in the step of the arrival, before
\* any call of the service reaches the repository, and the table is
\* untouched.
C20_ControllerValidation ==
  [][\A r \in Req :
       Arrives(r) =>
         LET q == NewReq(r)
             rejected(message) ==
               /\ pc'[r] = "idle"
               /\ last'.resp.status = 400
               /\ last'.resp.error = message
               /\ last'.calls.find = 0
               /\ last'.calls.create = 0
               /\ last'.calls.inc = 0
               /\ last'.calls.all = 0
               /\ rows' = rows
               /\ redirected' = redirected
         IN  /\ (q.kind = "create" /\ q.longUrl \in {"", Undefined}) =>
                  rejected("longUrl is required")
             /\ (/\ q.kind \in {"redirect", "stats"}
                 /\ q.shortCode \in {"", Undefined}) =>
                  rejected("shortCode is required")]_vars

\* A POST without longUrl but with a custom code was rejected by the
\* controller while the table holds a row.
C20_Witness ==
  /\ last.req.kind = "create"
  /\ last.req.longUrl = Undefined
  /\ last.req.customCode = "abc"
  /\ last.resp.status = 400
  /\ last.resp.error = "longUrl is required"
  /\ last.calls = NoCalls
  /\ rows # <<>>

\* C19: the registry never holds more than one client; a getPrismaClient
\* call made while no disconnectPrisma call has completed since the
\* previous one returns the client the previous one returned, and
\* constructs none; the first getPrismaClient call after a disconnectPrisma
\* call completed returns a client constructed by that call, different from
\* every client returned before.
C19_Singleton ==
  /\ [](/\ Cardinality(DOMAIN instances) <= 1
        /\ \A k \in DOMAIN instances : instances[k] = returned)
  /\ [][(calls' = calls + 1 /\ op' = "getPrismaClient") =>
          IF completed
            THEN /\ returned' = clients'
                 /\ clients' = clients + 1
                 /\ returned' # returned
                 /\ returned' \notin closed
            ELSE /\ returned' = returned
                 /\ clients' = clients]_vars

\* The first client was disconnected, the next call constructed a second
\* one, and the call after that returned the second one again.
C19_Witness ==
  /\ op = "getPrismaClient"
  /\ calls >= 3
  /\ clients = 2
  /\ returned = 2
  /\ closed = {1}
  /\ instances = MapSet(<<>>, "prisma_singleton", 2)

\* C21: a createShortUrl that succeeds has appended exactly one row, with
\* the longUrl of the request and the code the handler was assigned, and
\* has left the other rows as they were; the 201 body carries that row's
\* shortCode and longUrl, and as shortUrl the base URL, "/" and that code.
C21_CreateResponse ==
  [][\A r \in Req :
       (pc[r] = "create" /\ Continues(r) /\ last'.resp.status = 201) =>
         /\ Len(rows') = Len(rows) + 1
         /\ \A i \in DOMAIN rows : rows'[i] = rows[i]
         /\ rows'[Len(rows')].longUrl = req[r].longUrl
         /\ rows'[Len(rows')].shortCode = loc[r].shortCode
         /\ last'.resp.shortCode = rows'[Len(rows')].shortCode
         /\ last'.resp.longUrl = req[r].longUrl
         /\ last'.resp.shortUrl =
              "http://localhost:3000/" \o rows'[Len(rows')].shortCode
         /\ last'.resp.error = ""]_vars

\* A create of "abc" for https://example.org/a was answered 201 with
\* shortUrl http://localhost:3000/abc, and the table holds that one row.
C21_Witness ==
  /\ last.req.kind = "create"
  /\ last.resp.status = 201
  /\ last.resp.shortUrl = "http://localhost:3000/abc"
  /\ last.resp.longUrl = "https://example.org/a"
  /\ Len(rows) = 1
  /\ rows[1].shortCode = "abc"
  /\ rows[1].longUrl = "https://example.org/a"

\* C22: incrementClicks is only called for a code that has a row: a handler
\* that awaits the increment has read the row of its code and the table
\* holds that code, whatever the other connections did in between, so the
\* increment of every such handler finds its row and is answered 302; the
\* error of an increment of an absent code never happens.
C22_IncrementOnStored ==
  /\ [](\A r \in Req :
          pc[r] = "increment" =>
            /\ Present(req[r].shortCode)
            /\ loc[r].url # <<>>
            /\ loc[r].url[1].shortCode = req[r].shortCode)
  /\ [][\A r \in Req :
          (pc[r] = "increment" /\ Continues(r)) =>
            /\ Present(req[r].shortCode)
            /\ last'.calls.inc = 1
            /\ last'.resp.status = 302]_vars
  /\ [](last.calls.inc = 1 => last.resp.status # 500)

\* After "abc" was created, two resolves of it are both between their
\* lookup and their increment.
C22_Witness ==
  /\ \A r \in Req : pc[r] = "increment" /\ req[r].shortCode = "abc"
  /\ Present("abc")

\* C23: on a store that may fail, a 302 is only ever sent by the step in
\* which incrementClicks succeeded, which added one click to the row of the
\* code; when the increment fails the answer is 500 'Internal server
\* error' with no Location, and neither the table nor the number of
\* redirects issued changes.  So the clicks of every row equal the
\* redirects issued for its code.
C23_ClickBeforeRedirect ==
  /\ [][\A r \in Req :
          Answers(r) =>
            /\ last'.resp.status = 302 =>
                 /\ pc[r] = "increment"
                 /\ last'.calls.inc = 1
                 /\ last'.calls.threw = 0
                 /\ \E i \in DOMAIN rows :
                      /\ rows[i].shortCode = req[r].shortCode
                      /\ rows'[i].clicks = rows[i].clicks + 1
                 /\ redirected'[req[r].shortCode] =
                      redirected[req[r].shortCode] + 1
            /\ (pc[r] = "increment" /\ last'.calls.threw = 1) =>
                 /\ last'.resp.status = 500
                 /\ last'.resp.error = "Internal server error"
                 /\ last'.resp.location = ""
                 /\ rows' = rows
                 /\ redirected' = redirected]_vars
  /\ [](\A i \in DOMAIN rows :
          rows[i].clicks = redirected[rows[i].shortCode])

\* "abc" was resolved once with a redirect, and a second resolve of it,
\* whose increment failed, has been answered 500: one click, one redirect.
C23_Witness ==
  /\ \A r \in Req : pc[r] = "idle"
  /\ last.req.kind = "redirect"
  /\ last.req.shortCode = "abc"
  /\ last.resp.status = 500
  /\ last.calls.inc = 1
  /\ last.calls.threw = 1
  /\ redirected["abc"] = 1
  /\ \E i \in DOMAIN rows : rows[i].shortCode = "abc" /\ rows[i].clicks = 1

\* C24: generateUniqueCode returns the first candidate that does not
\* collide.  A handler that draws again has made as many lookups as
\* candidates collided (k, at most 4); the step that finds candidate k + 1
\* free is its lookup k + 1, sees the candidate absent from the table and
\* passes exactly that candidate to the insert; and the insert, when no
\* other request has taken the code in between, persists that candidate
\* and answers 201 without any further lookup.
C24_FirstFreeCandidate ==
  /\ [](\A r \in Req :
          /\ pc[r] = "generate" =>
               /\ loc[r].attempt \in 1..4
               /\ loc[r].lookups = loc[r].attempt
          /\ (pc[r] = "create" /\ IsGeneratedCreate(req[r])) =>
               /\ loc[r].lookups \in 1..5
               /\ Len(loc[r].shortCode) = 8)
  /\ [][\A r \in Req :
          /\ (pc[r] # "create" /\ pc'[r] = "create"
                /\ IsGeneratedCreate(req'[r])) =>
               /\ loc'[r].lookups = loc[r].attempt + 1
               /\ ~ Present(loc'[r].shortCode)
               /\ rows' = rows
          /\ (pc[r] = "create" /\ Continues(r) /\ IsGeneratedCreate(req[r])
                /\ ~ Present(loc[r].shortCode)) =>
               /\ last'.resp.status = 201
               /\ last'.resp.shortCode = loc[r].shortCode
               /\ rows'[Len(rows')].shortCode = loc[r].shortCode
               /\ last'.loc.lookups = loc[r].lookups
               /\ last'.calls.find = 0]_vars

\* A create without custom code whose first four candidates collided with
\* the stored code was answered 201 after five lookups, with the fifth
\* candidate.
C24_Witness ==
  /\ IsGeneratedCreate(last.req)
  /\ last.resp.status = 201
  /\ last.loc.lookups = 5
  /\ Len(rows) = 2
  /\ rows[2].shortCode = last.resp.shortCode
  /\ rows[1].shortCode # rows[2].shortCode

\* C25: an insert the store rejects is not retried.  When the code a
\* handler generated has been inserted by another request between the
\* handler's lookup and its insert, the insert step ends the request with
\* an error: the handler draws no other candidate and makes no further
\* lookup, the table is left as it was, and it holds the code once.
C25_NoRetry ==
  [][\A r \in Req :
       /\ pc[r] = "create" => pc'[r] \in {"create", "idle"}
       /\ (pc[r] = "create" /\ Continues(r) /\ IsGeneratedCreate(req[r])
             /\ Present(loc[r].shortCode)) =>
            /\ last'.req = req[r]
            /\ last'.resp.status # 201
            /\ last'.resp.error # ""
            /\ last'.calls.create = 1
            /\ last'.calls.find = 0
            /\ last'.loc.lookups = loc[r].lookups
            /\ rows' = rows
            /\ Cardinality(RowsOf(rows', loc[r].shortCode)) = 1]_vars

\* Two creates without custom code drew the same code and both saw it
\* free; the second insert was rejected and its request answered with the
\* store's error after its single lookup, the table holding one row.
C25_Witness ==
  /\ \A r \in Req : pc[r] = "idle"
  /\ started = 2
  /\ IsGeneratedCreate(last.req)
  /\ last.resp.error = ErrUnique
  /\ last.calls.create = 1
  /\ last.loc.lookups = 1
  /\ Len(rows) = 1
  /\ rows[1].shortCode = last.loc.shortCode

\* C26: repository.incrementClicks(code), called with any code on any
\* table, is one step that adds exactly 1 to the clicks of the row with that
\* code and sets its updatedAt to a later time, the newest of the table,
\* leaving every other field and every other row as it was; called with a
\* code no row has, it rejects and the table is unchanged.
C26_IncrementClicks ==
  [][(started' = started + 1 /\ last'.req.kind = "incrementClicks") =>
       IF Present(last'.req.shortCode)
         THEN /\ last'.resp.error = ""
              /\ last'.calls.threw = 0
              /\ Len(rows') = Len(rows)
              /\ \A i \in DOMAIN rows :
                   IF rows[i].shortCode = last'.req.shortCode
                     THEN /\ rows'[i].clicks = rows[i].clicks + 1
                          /\ rows'[i].updatedAt > rows[i].updatedAt
                          /\ \A j \in DOMAIN rows :
                               rows'[j].updatedAt <= rows'[i].updatedAt
                          /\ [rows'[i] EXCEPT !.clicks = rows[i].clicks,
                                              !.updatedAt = rows[i].updatedAt]
                               = rows[i]
                     ELSE rows'[i] = rows[i]
         ELSE /\ last'.resp.error # ""
              /\ last'.calls.threw = 1
              /\ rows' = rows]_vars

\* After an increment of a stored code that counted a click, an increment
\* of a code no row has was rejected.
C26_Witness ==
  /\ last.req.kind = "incrementClicks"
  /\ last.resp.error # ""
  /\ ~ Present(last.req.shortCode)
  /\ \E i \in DOMAIN rows : rows[i].clicks = 1

\* C27: disconnectPrisma in any state of the registry.  Called while no
\* client is registered, the call completes at once and changes nothing.
\* Called while a client is registered, it calls $disconnect of that
\* client, and when that resolves the client is disconnected and the
\* registry is empty, so that a disconnectPrisma that follows finds no
\* client and is the first case.
C27_DisconnectSafe ==
  [][/\ (calls' = calls + 1 /\ op' = "disconnectPrisma") =>
          /\ instances' = instances
          /\ closed' = closed
          /\ clients' = clients
          /\ returned' = returned
          /\ IF DOMAIN instances = {}
               THEN pending' = pending /\ completed'
               ELSE \E c \in Callers :
                      /\ pending[c] = 0
                      /\ pending' = [pending EXCEPT
                                       ![c] = instances["prisma_singleton"]]
     /\ \A c \in Callers :
          (pending[c] # 0 /\ pending'[c] = 0) =>
            /\ closed' = closed \cup {pending[c]}
            /\ DOMAIN instances' = {}
            /\ clients' = clients
            /\ completed']_vars

\* The client made at load was disconnected by a first disconnectPrisma,
\* and a second one, called right after, has completed on the empty
\* registry.
C27_Witness ==
  /\ calls = 2
  /\ op = "disconnectPrisma"
  /\ completed
  /\ DOMAIN instances = {}
  /\ closed = {1}
  /\ \A c \in Callers : pending[c] = 0

\* C28: when every create request carries the custom code "", each of them
\* is handled as a request without custom code: with a valid URL it runs
\* the generation (its first step is the lookup of a drawn candidate of 8
\* characters), the service never sees "" as a custom code, no row ever has
\* the empty shortCode, and no request is answered 'Custom code already
\* exists', however many of them came before.
C28_EmptyCustomCode ==
  /\ [](\A i \in DOMAIN rows : Len(rows[i].shortCode) = 8)
  /\ [](last.resp.error # "Custom code already exists")
  /\ [](\A r \in Req : req[r].customCode # "" /\ loc[r].shortCode # "abc")
  /\ [][\A r \in Req :
          (Arrives(r) /\ NewReq(r).longUrl \in ValidUrls) =>
            /\ NewReq(r).customCode = "<undefined>"
            /\ pc'[r] \in {"create", "generate"}
            /\ loc'[r].lookups = 1
            /\ pc'[r] = "create" => Len(loc'[r].shortCode) = 8]_vars

\* Two creates with customCode "" were both answered 201, each with a
\* generated code of its own.
C28_Witness ==
  /\ started = 2
  /\ \A r \in Req : pc[r] = "idle"
  /\ last.resp.status = 201
  /\ Len(rows) = 2
  /\ \A i \in DOMAIN rows : Len(rows[i].shortCode) = 8
  /\ rows[1].shortCode # rows[2].shortCode

\* C29: GET /health is always answered by the health handler, 200 with
\* status 'OK', without a call of the store and without a change of the
\* table, whatever the table holds; it is never handled as the resolve of
\* a short code, so the row created with the custom code "health" is never
\* read or clicked by it: in a service whose only GETs are of one-segment
\* paths, that row keeps 0 clicks.
C29_HealthRoute ==
  /\ [][\A r \in Req :
          Get(r, "health") =>
            /\ pc'[r] = "idle"
            /\ last'.req.kind = "health"
            /\ last'.resp.status = 200
            /\ last'.resp.health = "OK"
            /\ last'.resp.error = ""
            /\ last'.calls = [find |-> 0, create |-> 0, inc |-> 0,
                              all |-> 0, threw |-> 0]
            /\ rows' = rows
            /\ redirected' = redirected]_vars
  /\ [](/\ \A r \in Req :
            ~ (req[r].kind = "redirect" /\ req[r].shortCode = "health")
        /\ ~ (last.req.kind = "redirect" /\ last.req.shortCode = "health")
        /\ \A i \in DOMAIN rows :
             rows[i].shortCode = "health" => rows[i].clicks = 0)

\* With a row of custom code "health" stored, GET /health was answered by
\* the health handler.
C29_Witness ==
  /\ last.req.kind = "health"
  /\ last.resp.status = 200
  /\ \E i \in DOMAIN rows :
       rows[i].shortCode = "health" /\ rows[i].clicks = 0

\* C30: a signal starts shutdown, which first calls the disconnect of the
\* database client and awaits it, the process still running; the process
\* exits with code 0 only in the step in which the disconnect a shutdown
\* awaited has resolved (or, where disconnectPrisma is used, when no client
\* was registered and there was nothing to disconnect).  So whenever the
\* process has exited with code 0, its database client is disconnected.
C30_ShutdownOrder ==
  /\ [][/\ \A c \in Callers :
            (handler[c] = "idle" /\ handler'[c] = "$disconnect") =>
              /\ exit' = <<>>
              /\ pending'[c] = returned
              /\ closed' = closed
        /\ (exit = <<>> /\ exit' = <<0>>) =>
             \E c \in Callers :
               /\ handler[c] # "exited"
               /\ handler'[c] = "exited"
               /\ \/ /\ handler[c] = "$disconnect"
                     /\ pending[c] # 0
                     /\ pending[c] \in closed'
                  \/ /\ handler[c] = "idle"
                     /\ entry # "src/index.ts"
                     /\ DOMAIN instances = {}]_vars
  /\ [](exit = <<0>> => returned \in closed)
  /\ []((\A c \in Callers : handler[c] = "idle") => exit = <<>>)

\* Both signals were delivered while the server had answered a request:
\* the process exited with code 0 when the disconnect awaited by the first
\* shutdown resolved, the second shutdown still awaiting its own.
C30_Witness ==
  /\ exit = <<0>>
  /\ returned \in closed
  /\ started > 0
  /\ \E c, d \in Callers :
       handler[c] = "exited" /\ handler[d] = "$disconnect"
====
